---------------------------- MODULE Spec2Model ----------------------------
(***************************************************************************)
(* A model of the scorecard normalisation pipeline of dashboard.py and     *)
(* mappings.py: clean_text, load_data, normalize_account_name,             *)
(* process_data (with its nested get_account_name, get_column_value,       *)
(* create_account_identifier and parse_score), merge_multiple_reviews and  *)
(* get_all_accounts_with_data, driven as main drives them.                 *)
(*                                                                         *)
(* Text is a sequence of characters.  A character is a one-character       *)
(* string; a character outside ASCII is written by its code point          *)
(* ("U+2013").  A missing cell (pandas NaN) is the one-element sequence NA *)
(* and Python's None is None: neither is a sequence of characters.         *)
(* A float is an exact fraction [n, d] with d > 0; an absent score is      *)
(* NoScore.  A timestamp is a positive integer; NaT is 0.                  *)
(***************************************************************************)
EXTENDS Integers, Sequences, FiniteSets, TLC

VARIABLES
  month,          \* main: selected_month_key
  files,          \* the files that exist under Scorecards/
  decodable,      \* whether pd.read_csv can decode the file under some encoding
  csv_rows,       \* the rows of the month's CSV export
  pc,             \* main's position in the load cycle
  raw_df,         \* main: raw_df (NoFrame while unset or None)
  processed_df,   \* main: processed_df
  all_accounts,   \* main: all_accounts
  blank_state,    \* st.session_state['show_blank_state_message']
  st_error,       \* whether st.error was called by load_data
  prev_accounts,  \* all_accounts of the previous load cycle
  cycle,          \* number of the current load cycle
  fn,             \* the function applied by a direct call, "" before the call
  arg,            \* the argument of the direct call
  ret,            \* its return value
  ret2            \* the return value of a second application to ret

vars == <<month, files, decodable, csv_rows, pc, raw_df, processed_df,
          all_accounts, blank_state, st_error, prev_accounts, cycle,
          fn, arg, ret, ret2>>

pipeVars == <<month, files, decodable, csv_rows, pc, raw_df, processed_df,
              all_accounts, blank_state, st_error, prev_accounts, cycle>>

callVars == <<fn, arg, ret, ret2>>

-----------------------------------------------------------------------------
(* Values *)

NA == <<"NaN">>
None == <<"None">>

isna(x) == x = NA \/ x = None
notna(x) == ~isna(x)

-----------------------------------------------------------------------------
(* Python str methods on sequences of characters *)

UpperCase == <<"A","B","C","D","E","F","G","H","I","J","K","L","M",
               "N","O","P","Q","R","S","T","U","V","W","X","Y","Z">>
LowerCase == <<"a","b","c","d","e","f","g","h","i","j","k","l","m",
               "n","o","p","q","r","s","t","u","v","w","x","y","z">>

ToLower == [c \in {UpperCase[i] : i \in 1..26} |->
              LowerCase[CHOOSE i \in 1..26 : UpperCase[i] = c]]
ToUpper == [c \in {LowerCase[i] : i \in 1..26} |->
              UpperCase[CHOOSE i \in 1..26 : LowerCase[i] = c]]

LowerChar(c) == IF c \in DOMAIN ToLower THEN ToLower[c] ELSE c
UpperChar(c) == IF c \in DOMAIN ToUpper THEN ToUpper[c] ELSE c

\* str.lower(), str.upper()
lower(s) == [i \in 1..Len(s) |-> LowerChar(s[i])]
upper(s) == [i \in 1..Len(s) |-> UpperChar(s[i])]

Whitespace == {" "}
Digits == {"0","1","2","3","4","5","6","7","8","9"}

\* str.strip(): drop leading and trailing whitespace
strip(s) ==
  LET keep == {i \in 1..Len(s) : s[i] \notin Whitespace}
  IN  IF keep = {} THEN <<>>
      ELSE LET lo == CHOOSE i \in keep : \A j \in keep : i <= j
               hi == CHOOSE i \in keep : \A j \in keep : j <= i
           IN  SubSeq(s, lo, hi)

\* str.replace(old, new) for one-character old and new
replace(s, old, new) == [i \in 1..Len(s) |-> IF s[i] = old THEN new ELSE s[i]]

-----------------------------------------------------------------------------
(* mappings.py: the roster and the variant table, as ordered dicts          *)

account_to_vertical ==
  << <<<<"D","e","l","t","a"," ","A","i","r"," ","L","i","n","e","s">>, "Aviation">>,  \* "Delta Air Lines"
     <<<<"F","o","r","d"," ","M","o","t","o","r"," ","C","o","m","p","a","n","y">>, "Automotive">>,  \* "Ford Motor Company"
     <<<<"G","e","n","e","r","a","l"," ","M","o","t","o","r","s">>, "Automotive">>,  \* "General Motors"
     <<<<"T","e","s","l","a"," ","I","n","c",".">>, "Automotive">>,  \* "Tesla Inc."
     <<<<"H","o","n","d","a"," ","M","o","t","o","r"," ","C","o","m","p","a","n","y">>, "Automotive">>,  \* "Honda Motor Company"
     <<<<"D","e","t","r","o","i","t"," ","D","i","e","s","e","l"," ","(","D","D","C",")">>, "Automotive">>,  \* "Detroit Diesel (DDC)"
     <<<<"L","o","c","k","h","e","e","d"," ","M","a","r","t","i","n">>, "Manufacturing">>,  \* "Lockheed Martin"
     <<<<"B","o","e","i","n","g"," ","C","o","m","p","a","n","y">>, "Manufacturing">>,  \* "Boeing Company"
     <<<<"N","o","r","t","h","r","o","p"," ","G","r","u","m","m","a","n">>, "Manufacturing">>,  \* "Northrop Grumman"
     <<<<"H","e","w","l","e","t","t","-","P","a","c","k","a","r","d">>, "Manufacturing">>,  \* "Hewlett-Packard"
     <<<<"T","e","x","t","r","o","n"," ","A","v","i","a","t","i","o","n">>, "Manufacturing">>,  \* "Textron Aviation"
     <<<<"S","p","i","r","i","t"," ","A","e","r","o","s","y","s","t","e","m","s">>, "Manufacturing">>,  \* "Spirit Aerosystems"
     <<<<"U","n","i","t","e","d"," ","T","e","c","h","n","o","l","o","g","i","e","s">>, "Manufacturing">>,  \* "United Technologies"
     <<<<"M","a","r","s">>, "Manufacturing">>,  \* "Mars"
     <<<<"B","a","l","l"," ","C","o","r","p">>, "Manufacturing">>,  \* "Ball Corp"
     <<<<"P","r","o","c","t","e","r"," ","&"," ","G","a","m","b","l","e"," ","C","o","m","p","a","n","y">>, "Manufacturing">>,  \* "Procter & Gamble Company"
     <<<<"G","E"," ","H","e","a","l","t","h","c","a","r","e">>, "Manufacturing">>,  \* "GE Healthcare"
     <<<<"G","e","n","e","r","a","l"," ","E","l","e","c","t","r","i","c">>, "Manufacturing">>,  \* "General Electric"
     <<<<"G","e","n","e","r","a","l"," ","D","y","n","a","m","i","c","s">>, "Manufacturing">>,  \* "General Dynamics"
     <<<<"N","e","s","t","l","e">>, "Manufacturing">>,  \* "Nestle"
     <<<<"W","e","s","t","i","n","g","h","o","u","s","e">>, "Manufacturing">>,  \* "Westinghouse"
     <<<<"M","i","c","r","o","n"," ","T","e","c","h">>, "Manufacturing">>,  \* "Micron Tech"
     <<<<"M","i","c","r","o","s","o","f","t">>, "Technology">>,  \* "Microsoft"
     <<<<"M","e","t","a">>, "Technology">>,  \* "Meta"
     <<<<"I","n","t","e","l">>, "Technology">>,  \* "Intel"
     <<<<"A","m","a","z","o","n">>, "Technology">>,  \* "Amazon"
     <<<<"A","m","a","z","o","n"," ","O","f","f","i","c","e">>, "Technology">>,  \* "Amazon Office"
     <<<<"G","o","o","g","l","e">>, "Technology">>,  \* "Google"
     <<<<"N","V","I","D","I","A">>, "Technology">>,  \* "NVIDIA"
     <<<<"A","d","o","b","e"," ","S","y","s","t","e","m","s">>, "Technology">>,  \* "Adobe Systems"
     <<<<"L","i","n","k","e","d","I","n">>, "Technology">>,  \* "LinkedIn"
     <<<<"L","A","M"," ","R","e","s","e","a","r","c","h">>, "Technology">>,  \* "LAM Research"
     <<<<"I","B","M">>, "Technology">>,  \* "IBM"
     <<<<"U","b","e","r">>, "Technology">>,  \* "Uber"
     <<<<"M","e","r","c","k">>, "Life Science">>,  \* "Merck"
     <<<<"A","b","b","o","t","t"," ","L","a","b","s">>, "Life Science">>,  \* "Abbott Labs"
     <<<<"A","m","g","e","n">>, "Life Science">>,  \* "Amgen"
     <<<<"E","l","i"," ","L","i","l","l","y">>, "Life Science">>,  \* "Eli Lilly"
     <<<<"S","a","n","o","f","i">>, "Life Science">>,  \* "Sanofi"
     <<<<"G","i","l","e","a","d"," ","S","c","i","e","n","c","e","s">>, "Life Science">>,  \* "Gilead Sciences"
     <<<<"T","a","k","e","d","a"," ","P","h","a","r","m","a","c","e","u","t","i","c","a","l">>, "Life Science">>,  \* "Takeda Pharmaceutical"
     <<<<"L","o","n","z","a"," ","B","i","o","l","o","g","i","c","s">>, "Life Science">>,  \* "Lonza Biologics"
     <<<<"B","r","i","s","t","o","l"," ","M","y","e","r","s"," ","S","q","u","i","b","b">>, "Life Science">>,  \* "Bristol Myers Squibb"
     <<<<"B","a","y","e","r">>, "Life Science">>,  \* "Bayer"
     <<<<"M","e","d","t","r","o","n","i","c">>, "Life Science">>,  \* "Medtronic"
     <<<<"B","i","o","g","e","n">>, "Life Science">>,  \* "Biogen"
     <<<<"B","o","e","h","r","i","n","g","e","r"," ","I","n","g","e","l","h","e","i","m">>, "Life Science">>,  \* "Boehringer Ingelheim"
     <<<<"N","o","v","a","r","t","i","s">>, "Life Science">>,  \* "Novartis"
     <<<<"J","o","h","n","s","o","n"," ","&"," ","J","o","h","n","s","o","n">>, "Life Science">>,  \* "Johnson & Johnson"
     <<<<"J","o","h","n","s","o","n"," ","&"," ","J","o","h","n","s","o","n"," ","-"," ","P","u","e","r","t","o"," ","R","i","c","o">>, "Life Science">>,  \* "Johnson & Johnson - Puerto Rico"
     <<<<"A","b","b","V","i","e">>, "Life Science">>,  \* "AbbVie"
     <<<<"W","e","l","l","s"," ","F","a","r","g","o">>, "Finance">>,  \* "Wells Fargo"
     <<<<"C","h","a","r","l","e","s"," ","S","c","h","w","a","b">>, "Finance">>,  \* "Charles Schwab"
     <<<<"D","e","u","t","s","c","h","e"," ","B","a","n","k">>, "Finance">>,  \* "Deutsche Bank"
     <<<<"C","I","G","N","A">>, "Finance">>,  \* "CIGNA"
     <<<<"U","S","A","A">>, "Finance">>,  \* "USAA"
     <<<<"N","i","k","e">>, "Distribution">>,  \* "Nike"
     <<<<"G","r","e","a","t"," ","A","m","e","r","i","c","a","n"," ","B","a","l","l"," ","P","a","r","k">>, "R&D / Education / Other">> >>  \* "Great American Ball Park"

account_name_variations ==
  << <<<<"A","b","b","v","i","e">>, <<"A","b","b","V","i","e">>>>,  \* "Abbvie" -> "AbbVie"
     <<<<"a","b","b","v","i","e">>, <<"A","b","b","V","i","e">>>>,  \* "abbvie" -> "AbbVie"
     <<<<"M","e","r","c","k"," ","S","o","d","e","x","o">>, <<"M","e","r","c","k">>>>,  \* "Merck Sodexo" -> "Merck"
     <<<<"m","e","r","c","k"," ","s","o","d","e","x","o">>, <<"M","e","r","c","k">>>>,  \* "merck sodexo" -> "Merck"
     <<<<"B","a","l","l"," ","C","o","r","p">>, <<"B","a","l","l"," ","C","o","r","p">>>>,  \* "Ball Corp" -> "Ball Corp"
     <<<<"b","a","l","l"," ","c","o","r","p">>, <<"B","a","l","l"," ","C","o","r","p">>>>,  \* "ball corp" -> "Ball Corp"
     <<<<"C","i","g","n","a">>, <<"C","I","G","N","A">>>>,  \* "Cigna" -> "CIGNA"
     <<<<"c","i","g","n","a">>, <<"C","I","G","N","A">>>>,  \* "cigna" -> "CIGNA"
     <<<<"G","M"," ","M","i","l","f","o","r","d">>, <<"G","e","n","e","r","a","l"," ","M","o","t","o","r","s">>>>,  \* "GM Milford" -> "General Motors"
     <<<<"g","m"," ","m","i","l","f","o","r","d">>, <<"G","e","n","e","r","a","l"," ","M","o","t","o","r","s">>>>,  \* "gm milford" -> "General Motors"
     <<<<"G","r","a","n","t"," ","f","r","a","z","i","e","r">>, <<"M","e","t","a">>>>,  \* "Grant frazier" -> "Meta"
     <<<<"g","r","a","n","t"," ","f","r","a","z","i","e","r">>, <<"M","e","t","a">>>>,  \* "grant frazier" -> "Meta"
     <<<<"M","i","c","r","o","n"," ","(","C","&","W",")">>, <<"M","i","c","r","o","n"," ","T","e","c","h">>>>,  \* "Micron (C&W)" -> "Micron Tech"
     <<<<"m","i","c","r","o","n"," ","(","c","&","w",")">>, <<"M","i","c","r","o","n"," ","T","e","c","h">>>>,  \* "micron (c&w)" -> "Micron Tech"
     <<<<"G","r","e","a","t"," ","A","m","e","r","i","c","a","n"," ","B","a","l","l","p","a","r","k">>, <<"G","r","e","a","t"," ","A","m","e","r","i","c","a","n"," ","B","a","l","l"," ","P","a","r","k">>>>,  \* "Great American Ballpark" -> "Great American Ball Park"
     <<<<"g","r","e","a","t"," ","a","m","e","r","i","c","a","n"," ","b","a","l","l","p","a","r","k">>, <<"G","r","e","a","t"," ","A","m","e","r","i","c","a","n"," ","B","a","l","l"," ","P","a","r","k">>>>,  \* "great american ballpark" -> "Great American Ball Park"
     <<<<"L","a","m"," ","R","e","s","e","a","r","c","h">>, <<"L","A","M"," ","R","e","s","e","a","r","c","h">>>>,  \* "Lam Research" -> "LAM Research"
     <<<<"l","a","m"," ","r","e","s","e","a","r","c","h">>, <<"L","A","M"," ","R","e","s","e","a","r","c","h">>>>,  \* "lam research" -> "LAM Research"
     <<<<"P","&","G","(","J","L","L",")">>, <<"P","r","o","c","t","e","r"," ","&"," ","G","a","m","b","l","e"," ","C","o","m","p","a","n","y">>>>,  \* "P&G(JLL)" -> "Procter & Gamble Company"
     <<<<"p","&","g","(","j","l","l",")">>, <<"P","r","o","c","t","e","r"," ","&"," ","G","a","m","b","l","e"," ","C","o","m","p","a","n","y">>>>,  \* "p&g(jll)" -> "Procter & Gamble Company"
     <<<<"P","&","G">>, <<"P","r","o","c","t","e","r"," ","&"," ","G","a","m","b","l","e"," ","C","o","m","p","a","n","y">>>>,  \* "P&G" -> "Procter & Gamble Company"
     <<<<"p","&","g">>, <<"P","r","o","c","t","e","r"," ","&"," ","G","a","m","b","l","e"," ","C","o","m","p","a","n","y">>>>,  \* "p&g" -> "Procter & Gamble Company"
     <<<<"M","i","c","r","o","s","o","f","t"," ","P","u","g","e","t"," ","S","o","u","n","d">>, <<"M","i","c","r","o","s","o","f","t">>>>,  \* "Microsoft Puget Sound" -> "Microsoft"
     <<<<"m","i","c","r","o","s","o","f","t"," ","p","u","g","e","t"," ","s","o","u","n","d">>, <<"M","i","c","r","o","s","o","f","t">>>>,  \* "microsoft puget sound" -> "Microsoft"
     <<<<"B","o","e","i","n","g">>, <<"B","o","e","i","n","g"," ","C","o","m","p","a","n","y">>>>,  \* "Boeing" -> "Boeing Company"
     <<<<"b","o","e","i","n","g">>, <<"B","o","e","i","n","g"," ","C","o","m","p","a","n","y">>>>,  \* "boeing" -> "Boeing Company"
     <<<<"G","e","n","e","r","a","l"," ","D","y","n","a","m","i","c","s">>, <<"G","e","n","e","r","a","l"," ","D","y","n","a","m","i","c","s">>>>,  \* "General Dynamics" -> "General Dynamics"
     <<<<"g","e","n","e","r","a","l"," ","d","y","n","a","m","i","c","s">>, <<"G","e","n","e","r","a","l"," ","D","y","n","a","m","i","c","s">>>>,  \* "general dynamics" -> "General Dynamics"
     <<<<"J","L","L"," ","N","o","r","t","h","r","o","p"," ","G","r","u","m","m","a","n">>, <<"N","o","r","t","h","r","o","p"," ","G","r","u","m","m","a","n">>>>,  \* "JLL Northrop Grumman" -> "Northrop Grumman"
     <<<<"W","e","l","l","s"," ","F","a","r","g","o","-","J","L","L">>, <<"W","e","l","l","s"," ","F","a","r","g","o">>>>,  \* "Wells Fargo-JLL" -> "Wells Fargo"
     <<<<"w","e","l","l","s"," ","f","a","r","g","o","-","j","l","l">>, <<"W","e","l","l","s"," ","F","a","r","g","o">>>>,  \* "wells fargo-jll" -> "Wells Fargo"
     <<<<"A","b","b","o","t","t","t">>, <<"A","b","b","o","t","t"," ","L","a","b","s">>>>,  \* "Abbottt" -> "Abbott Labs"
     <<<<"a","b","b","o","t","t","t">>, <<"A","b","b","o","t","t"," ","L","a","b","s">>>>,  \* "abbottt" -> "Abbott Labs"
     <<<<"A","b","b","o","t","t">>, <<"A","b","b","o","t","t"," ","L","a","b","s">>>>,  \* "Abbott" -> "Abbott Labs"
     <<<<"a","b","b","o","t","t">>, <<"A","b","b","o","t","t"," ","L","a","b","s">>>>,  \* "abbott" -> "Abbott Labs"
     <<<<"J","o","h","n","s","o","n"," ","&"," ","J","o","h","n","s","o","n"," ","J","L","L">>, <<"J","o","h","n","s","o","n"," ","&"," ","J","o","h","n","s","o","n">>>>,  \* "Johnson & Johnson JLL" -> "Johnson & Johnson"
     <<<<"j","o","h","n","s","o","n"," ","&"," ","j","o","h","n","s","o","n"," ","j","l","l">>, <<"J","o","h","n","s","o","n"," ","&"," ","J","o","h","n","s","o","n">>>>,  \* "johnson & johnson jll" -> "Johnson & Johnson"
     <<<<"O","m","n","i","c","o","m">>, None>>,  \* "Omnicom" -> None
     <<<<"N","i","k","e","/","D","H","L">>, <<"N","i","k","e">>>>,  \* "Nike/DHL" -> "Nike"
     <<<<"n","i","k","e","/","d","h","l">>, <<"N","i","k","e">>>>,  \* "nike/dhl" -> "Nike"
     <<<<"N","i","k","e","/","G","X","O"," ","R","e","l","a","y">>, <<"N","i","k","e">>>>,  \* "Nike/GXO Relay" -> "Nike"
     <<<<"N","i","k","e","/","G","X","O"," ","R","e","l","a","y"," ","(","C","a","l","i","f","o","r","n","i","a",")">>, <<"N","i","k","e">>>>,  \* "Nike/GXO Relay (California)" -> "Nike"
     <<<<"n","i","k","e","/","g","x","o"," ","r","e","l","a","y">>, <<"N","i","k","e">>>>,  \* "nike/gxo relay" -> "Nike"
     <<<<"N","i","k","e","/","G","X","O"," ","C","o","n","n","e","c","t">>, <<"N","i","k","e">>>>,  \* "Nike/GXO Connect" -> "Nike"
     <<<<"N","i","k","e","/","G","X","O"," "," ","C","o","n","n","e","c","t">>, <<"N","i","k","e">>>>,  \* "Nike/GXO  Connect" -> "Nike"
     <<<<"n","i","k","e","/","g","x","o"," ","c","o","n","n","e","c","t">>, <<"N","i","k","e">>>>,  \* "nike/gxo connect" -> "Nike"
     <<<<"N","i","k","e","/","N","A","L","C">>, <<"N","i","k","e">>>>,  \* "Nike/NALC" -> "Nike"
     <<<<"n","i","k","e","/","n","a","l","c">>, <<"N","i","k","e">>>>,  \* "nike/nalc" -> "Nike"
     <<<<"N","i","k","e","/","A","d","a","p","t">>, <<"N","i","k","e">>>>,  \* "Nike/Adapt" -> "Nike"
     <<<<"n","i","k","e","/","a","d","a","p","t">>, <<"N","i","k","e">>>> >>  \* "nike/adapt" -> "Nike"

\* dict.keys(), key in dict, dict[key] over an ordered dict of <<key, value>>
Keys(d) == {d[i][1] : i \in 1..Len(d)}
Get(d, k) == d[CHOOSE i \in 1..Len(d) : d[i][1] = k][2]

\* The dicts' hash lookups, computed once.
RosterKeys == Keys(account_to_vertical)
VerticalOf == [k \in RosterKeys |-> Get(account_to_vertical, k)]
VariantKeys == Keys(account_name_variations)

\* A slip: the canonical names of the variant table typed in lower case.
VariantOf_lower ==
  [k \in Keys(account_name_variations) |->
     IF Get(account_name_variations, k) = None THEN None
     ELSE lower(Get(account_name_variations, k))]

\* A slip: an alias entered as its own canonical name.
VariantOf_alias ==
  [k \in Keys(account_name_variations) |->
     IF Get(account_name_variations, k) = None THEN None ELSE k]

VariantOf == [k \in VariantKeys |-> Get(account_name_variations, k)]

RosterLower == [i \in 1..Len(account_to_vertical) |-> lower(account_to_vertical[i][1])]

-----------------------------------------------------------------------------
(* clean_text *)

\* A table with a slip: the em dash is rewritten to a character that the table
\* itself rewrites, in an entry that comes earlier.
replacements_chained ==
  << <<"U+FFFD", "'">>, <<"U+0092", "'">>, <<"U+0093", "\"">>, <<"U+0094", "\"">>,
     <<"U+0096", "U+2013">>, <<"U+0097", "U+2014">>, <<"U+0091", "'">>,
     <<"U+2018", "'">>, <<"U+2019", "'">>, <<"U+201C", "\"">>, <<"U+201D", "\"">>,
     <<"U+2013", "U+2013">>, <<"U+2014", "U+2019">> >>

\* The replacement table, in the dict's order.
replacements ==
  << <<"U+FFFD", "'">>,
     <<"U+0092", "'">>,
     <<"U+0093", "\"">>,
     <<"U+0094", "\"">>,
     <<"U+0096", "U+2013">>,
     <<"U+0097", "U+2014">>,
     <<"U+0091", "'">>,
     <<"U+2018", "'">>,
     <<"U+2019", "'">>,
     <<"U+201C", "\"">>,
     <<"U+201D", "\"">>,
     <<"U+2013", "U+2013">>,
     <<"U+2014", "U+2014">> >>

RECURSIVE ApplyReplacements(_, _, _)
\* for old, new in replacements.items(): text = text.replace(old, new)
ApplyReplacements(text, table, i) ==
  IF i > Len(table) THEN text
  ELSE ApplyReplacements(replace(text, table[i][1], table[i][2]), table, i + 1)

\* A value that is missing or not a str is returned as it is.
clean_text(text) ==
  IF isna(text) THEN text ELSE ApplyReplacements(text, replacements, 1)

-----------------------------------------------------------------------------
(* normalize_account_name *)

\* A slip: the keys are compared as written, without lower().
CaseInsensitiveMatches_exact(account_str) ==
  {i \in 1..Len(account_to_vertical) : account_to_vertical[i][1] = account_str}

\* for key in account_to_vertical.keys(): if key.lower() == account_str.lower()
CaseInsensitiveMatches(account_str) ==
  {i \in 1..Len(account_to_vertical) : RosterLower[i] = lower(account_str)}

FirstOf(S) == CHOOSE i \in S : \A j \in S : i <= j

\* A slip: the label is looked up as typed, without strip().
normalize_account_name_untrimmed(account_name) ==
  IF isna(account_name) THEN None
  ELSE LET account_str == account_name IN
       IF account_str \in VariantKeys /\ VariantOf[account_str] = None THEN None
       ELSE IF account_str \in VariantKeys THEN VariantOf[account_str]
       ELSE IF account_str \in RosterKeys THEN account_str
       ELSE IF CaseInsensitiveMatches(account_str) # {}
            THEN account_to_vertical[FirstOf(CaseInsensitiveMatches(account_str))][1]
       ELSE account_str

normalize_account_name(account_name) ==
  IF isna(account_name) THEN None
  ELSE LET account_str == strip(account_name) IN
       IF account_str \in VariantKeys /\ VariantOf[account_str] = None THEN None
       ELSE IF account_str \in VariantKeys THEN VariantOf[account_str]
       ELSE IF account_str \in RosterKeys THEN account_str
       ELSE IF CaseInsensitiveMatches(account_str) # {}
            THEN account_to_vertical[FirstOf(CaseInsensitiveMatches(account_str))][1]
       ELSE account_str

-----------------------------------------------------------------------------
(* Floats, as exact fractions *)

RECURSIVE GCD(_, _)
GCD(a, b) == IF b = 0 THEN a ELSE GCD(b, a % b)

Abs(x) == IF x < 0 THEN -x ELSE x

\* The float n/d in lowest terms, d > 0.
Frac(n, d) == LET g == GCD(Abs(n), d) IN [n |-> n \div g, d |-> d \div g]

NoScore == [n |-> 0, d |-> 0]      \* parse_score's None, pandas' NaN score
ValueError == [n |-> 1, d |-> 0]   \* float() raising ValueError

FracAdd(a, b) == Frac(a.n * b.d + b.n * a.d, a.d * b.d)
FracLeq(a, b) == a.n * b.d <= b.n * a.d

RECURSIVE FracSum(_)
\* sum(values) of a list of floats
FracSum(values) ==
  IF values = <<>> THEN Frac(0, 1) ELSE FracAdd(Head(values), FracSum(Tail(values)))

\* sum(values) / len(values)
Mean(values) == LET t == FracSum(values) IN Frac(t.n, t.d * Len(values))

DigitValue == [c \in Digits |->
  CASE c = "0" -> 0 [] c = "1" -> 1 [] c = "2" -> 2 [] c = "3" -> 3 [] c = "4" -> 4
    [] c = "5" -> 5 [] c = "6" -> 6 [] c = "7" -> 7 [] c = "8" -> 8 [] c = "9" -> 9]

RECURSIVE DigitsValue(_)
DigitsValue(s) ==
  IF s = <<>> THEN 0 ELSE 10 * DigitsValue(SubSeq(s, 1, Len(s) - 1)) + DigitValue[s[Len(s)]]

RECURSIVE Pow10(_)
Pow10(k) == IF k = 0 THEN 1 ELSE 10 * Pow10(k - 1)

\* Python's float(text) on decimal text: surrounding whitespace is dropped, then an
\* optional sign, then digits with at most one point and at least one digit.
\* (Exponents, "inf", "nan" and digit-group underscores need characters that the
\* score texts of this model never put in those places.)
float(text) ==
  LET t == strip(text)
      signed == t # <<>> /\ t[1] \in {"-", "+"}
      body == IF signed THEN Tail(t) ELSE t
      points == {i \in 1..Len(body) : body[i] = "."}
      digits == SelectSeq(body, LAMBDA c : c \in Digits)
      fraction == IF points = {} THEN 0 ELSE Len(body) - (CHOOSE i \in points : TRUE)
  IN  IF /\ \A i \in 1..Len(body) : body[i] \in Digits \cup {"."}
         /\ Cardinality(points) <= 1
         /\ digits # <<>>
      THEN Frac((IF signed /\ t[1] = "-" THEN -1 ELSE 1) * DigitsValue(digits), Pow10(fraction))
      ELSE ValueError

-----------------------------------------------------------------------------
(* Regular expressions: re.search and re.findall by backtracking, greedy first *)

One(cls) == [k |-> "one", cls |-> cls, g |-> <<>>]       \* one character of cls
Opt(cls) == [k |-> "opt", cls |-> cls, g |-> <<>>]       \* x?
Plus(cls) == [k |-> "plus", cls |-> cls, g |-> <<>>]     \* x+
Star(cls) == [k |-> "star", cls |-> cls, g |-> <<>>]     \* x*
OptGroup(g) == [k |-> "optg", cls |-> {}, g |-> g]       \* (?:...)?
Open == [k |-> "open", cls |-> {}, g |-> <<>>]           \* (
Close == [k |-> "close", cls |-> {}, g |-> <<>>]         \* )
Lit(text) == [i \in 1..Len(text) |-> One({text[i]})]     \* literal text

NoMatch == [ok |-> FALSE, end |-> 0, cap |-> <<0, 0>>]

\* The number of consecutive characters of cls in s from pos on.
RunLength(s, pos, cls) ==
  LET ns == {n \in 0..(Len(s) - pos + 1) : \A j \in 0..(n - 1) : s[pos + j] \in cls}
  IN  CHOOSE n \in ns : \A m \in ns : m <= n

RECURSIVE Match(_, _, _, _), MatchRepeat(_, _, _, _, _, _)

\* The match of items at pos found first by a backtracking matcher.
Match(s, items, pos, cap) ==
  IF items = <<>> THEN [ok |-> TRUE, end |-> pos, cap |-> cap]
  ELSE LET it == Head(items)
           rest == Tail(items)
           here == pos <= Len(s) /\ s[pos] \in it.cls
       IN  CASE it.k = "one" -> IF here THEN Match(s, rest, pos + 1, cap) ELSE NoMatch
             [] it.k = "opt" ->
                  LET r == IF here THEN Match(s, rest, pos + 1, cap) ELSE NoMatch
                  IN  IF r.ok THEN r ELSE Match(s, rest, pos, cap)
             [] it.k = "plus" -> MatchRepeat(s, rest, pos, RunLength(s, pos, it.cls), 1, cap)
             [] it.k = "star" -> MatchRepeat(s, rest, pos, RunLength(s, pos, it.cls), 0, cap)
             [] it.k = "optg" ->
                  LET r == Match(s, it.g \o rest, pos, cap)
                  IN  IF r.ok THEN r ELSE Match(s, rest, pos, cap)
             [] it.k = "open" -> Match(s, rest, pos, <<pos, cap[2]>>)
             [] it.k = "close" -> Match(s, rest, pos, <<cap[1], pos - 1>>)

\* A greedy repetition: the longest run first, then shorter ones down to least.
MatchRepeat(s, rest, pos, n, least, cap) ==
  IF n < least THEN NoMatch
  ELSE LET r == Match(s, rest, pos + n, cap)
       IN  IF r.ok THEN r ELSE MatchRepeat(s, rest, pos, n - 1, least, cap)

\* re.search(pattern, s) looking from position from on: the leftmost match.
SearchFrom(items, s, from) ==
  LET starts == {p \in from..(Len(s) + 1) : Match(s, items, p, <<0, 0>>).ok}
  IN  IF starts = {} THEN NoMatch
      ELSE Match(s, items, CHOOSE p \in starts : \A q \in starts : p <= q, <<0, 0>>)

search(items, s) == SearchFrom(items, s, 1)

\* match.group(1)
Group1(s, m) == SubSeq(s, m.cap[1], m.cap[2])

RECURSIVE FindAllFrom(_, _, _)
\* re.findall(pattern, s) for a pattern with one group that matches no empty text
FindAllFrom(items, s, from) ==
  LET m == SearchFrom(items, s, from)
  IN  IF ~m.ok THEN <<>> ELSE <<Group1(s, m)>> \o FindAllFrom(items, s, m.end)

findall(items, s) == FindAllFrom(items, s, 1)

-----------------------------------------------------------------------------
(* process_data.parse_score *)

\* (\d+\.?\d*)
Number == <<Open, Plus(Digits), Opt({"."}), Star(Digits), Close>>

score_patterns ==
  << \* r'SBM\s+(\d+\.?\d*)'
     Lit(<<"S","B","M">>) \o <<Plus(Whitespace)>> \o Number,
     \* r'scored?\s+(?:a\s+)?(\d+\.?\d*)'
     Lit(<<"s","c","o","r","e">>) \o <<Opt({"d"}), Plus(Whitespace),
       OptGroup(<<One({"a"}), Plus(Whitespace)>>)>> \o Number,
     \* r'(\d+\.?\d*)\s+out\s+of'
     Number \o <<Plus(Whitespace)>> \o Lit(<<"o","u","t">>) \o <<Plus(Whitespace)>>
       \o Lit(<<"o","f">>),
     \* r'score[d]?\s+(?:of\s+)?(\d+\.?\d*)'
     Lit(<<"s","c","o","r","e">>) \o <<Opt({"d"}), Plus(Whitespace),
       OptGroup(Lit(<<"o","f">>) \o <<Plus(Whitespace)>>)>> \o Number,
     \* r'(\d+\.?\d*)/5'
     Number \o Lit(<<"/","5">>),
     \* r'all\s+(?:sites?\s+)?(?:scored?\s+)?(?:a\s+)?(\d+\.?\d*)'
     Lit(<<"a","l","l">>) \o <<Plus(Whitespace),
       OptGroup(Lit(<<"s","i","t","e">>) \o <<Opt({"s"}), Plus(Whitespace)>>),
       OptGroup(Lit(<<"s","c","o","r","e">>) \o <<Opt({"d"}), Plus(Whitespace)>>),
       OptGroup(<<One({"a"}), Plus(Whitespace)>>)>> \o Number >>

\* 0 <= score <= 5
InScoreRange(score) == FracLeq(Frac(0, 1), score) /\ FracLeq(score, Frac(5, 1))

\* score_str.split('/')[0]
BeforeSlash(s) ==
  LET slashes == {i \in 1..Len(s) : s[i] = "/"}
  IN  SubSeq(s, 1, (CHOOSE i \in slashes : \A j \in slashes : i <= j) - 1)

\* for pattern in score_patterns: the capture of the first pattern that matches
\* score_str.lower() with a capture in range
PatternScore(s) ==
  LET hit(i) == LET m == search(score_patterns[i], lower(s))
                IN  m.ok /\ InScoreRange(float(Group1(lower(s), m)))
      hits == {i \in 1..Len(score_patterns) : hit(i)}
  IN  IF hits = {} THEN NoScore
      ELSE LET i == CHOOSE i \in hits : \A j \in hits : i <= j
           IN  float(Group1(lower(s), search(score_patterns[i], lower(s))))

\* A slip: the first number in range instead of the average.
FallbackScore_first(s) ==
  LET numbers == findall(Number, s)
      floats == [i \in 1..Len(numbers) |-> float(numbers[i])]
      valid_scores == SelectSeq(floats, InScoreRange)
  IN  IF valid_scores # <<>> THEN valid_scores[1] ELSE NoScore

\* A slip: the average of all the numbers of the text, in range or not.
FallbackScore_unfiltered(s) ==
  LET numbers == findall(Number, s)
      floats == [i \in 1..Len(numbers) |-> float(numbers[i])]
  IN  IF floats # <<>> THEN Mean(floats) ELSE NoScore

\* the average of the numbers of the text that lie in range
FallbackScore(s) ==
  LET numbers == findall(Number, s)
      floats == [i \in 1..Len(numbers) |-> float(numbers[i])]
      valid_scores == SelectSeq(floats, InScoreRange)
  IN  IF valid_scores # <<>> THEN Mean(valid_scores) ELSE NoScore

parse_score(score_str) ==
  IF isna(score_str) THEN NoScore
  ELSE LET s == strip(score_str) IN
       IF upper(s) = <<"N","/","A">> THEN NoScore
       ELSE IF float(s) # ValueError THEN float(s)
       ELSE IF "/" \in {s[i] : i \in 1..Len(s)} /\ float(BeforeSlash(s)) # ValueError
            THEN float(BeforeSlash(s))
       ELSE IF PatternScore(s) # NoScore THEN PatternScore(s)
       ELSE FallbackScore(s)

-----------------------------------------------------------------------------
(* The CSV export and load_data *)

\* One CSV record.  Account/Account1, Score/Score1 and Date/Date1 are the primary
\* and the continuation column ('...' and '...1') of a logical field.  Text cells
\* are texts or NA; Date, Date1 and Completion hold what pd.to_datetime makes of
\* the cell: a timestamp, or NaT for a missing or unparseable cell.
CsvRow(id, account, account1, score, score1, date, date1, completion, fm) ==
  [Id |-> id,                   \* 'Id'
   Account |-> account,         \* 'Name of Account/Portfolio'
   Account1 |-> account1,       \* 'Name of Account/Portfolio1'
   Score |-> score,             \* 'What was the overall Scorecard Score?'
   Score1 |-> score1,           \* 'What was the overall Scorecard Score?1'
   Date |-> date,               \* 'Date/Time of Scorecard Review?'
   Date1 |-> date1,             \* 'Date/Time of Scorecard Review?1'
   Completion |-> completion,   \* 'Completion time'
   FM |-> fm]                   \* 'Who is Your FM'

NaT == 0

December == "December_2025"
November == "November_2025"
October == "October_2025"     \* a month without a branch of its own in load_data
January == "January_2026"     \* a month of the next year

LegacyFile(n) == <<"Scorecard Review Executive Summary(Sheet1)", n>>
MonthFile(m) == <<"_Scorecards.csv", m>>

\* A slip: the month's own file name tried before the legacy names.
csv_path_current_first(m) ==
  IF MonthFile(m) \in files THEN MonthFile(m)
  ELSE IF m = December THEN LegacyFile("10")
  ELSE IF m = November
  THEN IF LegacyFile("8") \in files THEN LegacyFile("8") ELSE LegacyFile("5")
  ELSE MonthFile(m)

\* load_data's choice of csv_path for a given month
csv_path(m) ==
  IF m = December
  THEN IF LegacyFile("10") \in files THEN LegacyFile("10") ELSE MonthFile(m)
  ELSE IF m = November
  THEN IF LegacyFile("8") \in files THEN LegacyFile("8")
       ELSE IF LegacyFile("5") \in files THEN LegacyFile("5")
       ELSE MonthFile(m)
  ELSE MonthFile(m)

\* The month keys as Python compares them: character by character.
Spelling ==
  [m \in {December, November, October, January} |->
     CASE m = December -> <<"D","e","c","e","m","b","e","r","_","2","0","2","5">>
       [] m = November -> <<"N","o","v","e","m","b","e","r","_","2","0","2","5">>
       [] m = October -> <<"O","c","t","o","b","e","r","_","2","0","2","5">>
       [] m = January -> <<"J","a","n","u","a","r","y","_","2","0","2","6">>]

\* The characters of the month keys in the order of their code points.
CodePoints ==
  <<"0","1","2","3","4","5","6","7","8","9",
    "A","B","C","D","E","F","G","H","I","J","K","L","M","N","O","P","Q","R","S","T","U","V",
    "W","X","Y","Z","_",
    "a","b","c","d","e","f","g","h","i","j","k","l","m","n","o","p","q","r","s","t","u","v",
    "w","x","y","z">>

ord(c) == CHOOSE i \in 1..Len(CodePoints) : CodePoints[i] = c

RECURSIVE StrLess(_, _)
\* a < b for two str
StrLess(a, b) ==
  IF b = <<>> THEN FALSE
  ELSE IF a = <<>> THEN TRUE
  ELSE IF Head(a) # Head(b) THEN ord(Head(a)) < ord(Head(b))
  ELSE StrLess(Tail(a), Tail(b))

RECURSIVE sorted_reverse(_)
\* sorted(months, reverse=True) of a list without duplicates, given as a set
sorted_reverse(months) ==
  IF months = {} THEN <<>>
  ELSE LET top == CHOOSE m \in months :
                    \A n \in months \ {m} : StrLess(Spelling[n], Spelling[m])
       IN  <<top>> \o sorted_reverse(months \ {top})

\* The months with a '<Month>_<Year>_Scorecards.csv' file, then the months that
\* the legacy files stand for, sorted as strings in descending order.
get_available_months ==
  LET months == {m \in DOMAIN Spelling : MonthFile(m) \in files}
      legacy_files == \E n \in {"10", "8", "5"} : LegacyFile(n) \in files
      with_10 == IF legacy_files /\ LegacyFile("10") \in files THEN months \cup {December}
                 ELSE months
      with_8 == IF ~legacy_files THEN with_10
                ELSE IF LegacyFile("8") \in files /\ November \notin with_10
                THEN with_10 \cup {November}
                ELSE IF November \notin with_10 /\ December \notin with_10
                THEN with_10 \cup {November}
                ELSE with_10
  IN  sorted_reverse(with_8)

\* load_data's choice of csv_path when called without a month
default_csv_path ==
  LET available_months == get_available_months
  IN  IF available_months # <<>> THEN csv_path(available_months[1])
      ELSE IF LegacyFile("10") \in files THEN LegacyFile("10")
      ELSE IF LegacyFile("8") \in files THEN LegacyFile("8")
      ELSE LegacyFile("5")

\* df[col] = df[col].apply(clean_text) for every text column
CleanRow(r) ==
  [r EXCEPT !.Account = clean_text(@), !.Account1 = clean_text(@),
            !.Score = clean_text(@), !.Score1 = clean_text(@), !.FM = clean_text(@)]

\* A DataFrame, or None.  added names the columns that the frame has besides
\* those of the CSV file.
NoneFrame == [none |-> TRUE, rows |-> <<>>, added |-> {}]
Frame(rows) == [none |-> FALSE, rows |-> rows, added |-> {}]

\* The frame's rows carry their index label idx: the position in the file.
load_data(m) ==
  IF csv_path(m) \notin files \/ ~decodable THEN NoneFrame
  ELSE Frame([i \in 1..Len(csv_rows) |-> [idx |-> i, csv |-> CleanRow(csv_rows[i])]])

-----------------------------------------------------------------------------
(* process_data *)

IdCutoff == 62

\* pd.notna(v) and str(v).strip()
Populated(v) == notna(v) /\ strip(v) # <<>>

\* A slip: no fallback to the primary column.
get_account_name_new_only(row, is_december) == row.Account1

get_account_name(row, is_december) ==
  IF is_december THEN row.Account1
  ELSE IF Populated(row.Account1) THEN row.Account1
  ELSE row.Account

\* get_column_value(row, original_col, new_col), given the two cells
get_column_value(row, original, new, is_december) ==
  IF is_december THEN new
  ELSE IF Populated(row.Account1) THEN new
  ELSE original

\* df['IFM'] = df['Who is Your FM'].fillna('') ... str(x).strip()
IFMOf(fm) == IF isna(fm) THEN <<>> ELSE strip(fm)

\* ifm.replace('(None)', '').strip()
RECURSIVE RemoveAll(_, _)
RemoveAll(s, sub) ==
  LET at == {i \in 1..(Len(s) - Len(sub) + 1) : SubSeq(s, i, i + Len(sub) - 1) = sub}
  IN  IF at = {} THEN s
      ELSE LET i == CHOOSE i \in at : \A j \in at : i <= j
           IN  SubSeq(s, 1, i - 1) \o RemoveAll(SubSeq(s, i + Len(sub), Len(s)), sub)

create_account_identifier(base_account, ifm, is_december) ==
  LET ifm_clean == strip(RemoveAll(ifm, <<"(","N","o","n","e",")">>))
  IN  IF is_december /\ ifm # <<>> /\ ifm_clean # <<>>
      THEN base_account \o <<" ", "(">> \o ifm_clean \o <<")">>
      ELSE base_account

\* df['Vertical'] = df['Account_Normalized'].map(account_to_vertical).fillna('Other')
VerticalFor(account) == IF account \in RosterKeys THEN VerticalOf[account] ELSE "Other"

\* The row of the returned frame made from one row that the filters keep.
ProcessRow(r, is_december) ==
  LET name == get_account_name(r.csv, is_december)
      normalized == normalize_account_name(name)
      ifm == IFMOf(r.csv.FM)
      score_raw == get_column_value(r.csv, r.csv.Score, r.csv.Score1, is_december)
  IN  [idx |-> r.idx,
       Account_Name |-> name,
       Account_Normalized |-> normalized,
       IFM |-> ifm,
       Account_Identifier |-> create_account_identifier(normalized, ifm, is_december),
       Vertical |-> VerticalFor(normalized),
       Score_Raw |-> score_raw,
       Score |-> parse_score(score_raw),
       Review_Date |-> get_column_value(r.csv, r.csv.Date, r.csv.Date1, is_december),
       Completion_Date |-> r.csv.Completion]

\* A slip: the cutoff applied in every month.
CohortRows_every_month(rows, m) == SelectSeq(rows, LAMBDA r : r.csv.Id >= IdCutoff)

\* df = df[df['Id'] >= 62] for December
CohortRows(rows, m) ==
  IF m = December THEN SelectSeq(rows, LAMBDA r : r.csv.Id >= IdCutoff) ELSE rows

\* A slip: the rows the resolver excludes are not filtered out.
ResolvedRows_unfiltered(rows, m) == CohortRows(rows, m)

\* df = df[df['Account_Normalized'].notna()]
ResolvedRows(rows, m) ==
  SelectSeq(CohortRows(rows, m),
            LAMBDA r : normalize_account_name(get_account_name(r.csv, m = December)) # None)

process_data(df, m) ==
  IF df.none \/ Len(df.rows) = 0 THEN <<>>
  ELSE IF Len(CohortRows(df.rows, m)) = 0 THEN <<>>
  ELSE LET kept == ResolvedRows(df.rows, m)
       IN  [i \in 1..Len(kept) |-> ProcessRow(kept[i], m = December)]

\* The caller's frame after the call.  For December df is rebound to a copy by
\* df = df[df['Id'] >= 62].copy() before any assignment; for another month
\* df['Account_Name'] = ... and df['Account_Normalized'] = ... are assignments to
\* the caller's frame, and df is rebound to a copy only by the filter after them.
process_data_input(df, m) ==
  IF df.none \/ Len(df.rows) = 0 THEN df
  ELSE IF m = December THEN df
  ELSE [df EXCEPT !.added = @ \cup {"Account_Name", "Account_Normalized"}]

\* With every row dropped by the resolver the frame has columns and no row, and
\* df.apply(..., axis=1) returns what pandas infers from a probe call on a row of
\* NaN: a column in some pandas versions, and in others a frame whose assignment
\* to df['Account_Identifier'] raises ValueError.
process_data_outcomes(df, m) ==
  IF ~df.none /\ Len(CohortRows(df.rows, m)) > 0 /\ Len(ResolvedRows(df.rows, m)) = 0
  THEN {"return", "raise"}
  ELSE {"return"}

-----------------------------------------------------------------------------
(* merge_multiple_reviews and get_all_accounts_with_data *)

merge_accounts ==
  { <<"G","i","l","e","a","d"," ","S","c","i","e","n","c","e","s">>,
    <<"N","i","k","e">>,
    <<"G","e","n","e","r","a","l"," ","M","o","t","o","r","s">> }

Max(S) == CHOOSE x \in S : \A y \in S : y <= x

\* Series.max() of a datetime column: NaT is skipped, and is the result when
\* every value is NaT.
MaxDate(dates) == Max({dates[i] : i \in 1..Len(dates)} \cup {NaT})

RECURSIVE unique(_)
\* Series.unique(): the distinct values in order of first appearance
unique(values) ==
  IF values = <<>> THEN <<>>
  ELSE LET n == Len(values)
           before == unique(SubSeq(values, 1, n - 1))
       IN  IF values[n] \in {before[i] : i \in 1..Len(before)} THEN before
           ELSE Append(before, values[n])

\* A slip: a tie for the maximum broken by something that differs between load
\* cycles.
idxmax_by_cycle(group) ==
  LET valid == {i \in 1..Len(group) : group[i].Completion_Date # NaT}
      top == {i \in valid : \A j \in valid : group[j].Completion_Date <= group[i].Completion_Date}
  IN  IF valid = {} THEN 0
      ELSE IF cycle = 1 THEN CHOOSE i \in top : \A j \in top : i <= j
      ELSE CHOOSE i \in top : \A j \in top : j <= i

\* Series.idxmax() of Completion_Date, as a position in the group: the first row
\* holding the maximum, NaT skipped; 0 when every value is NaT (idxmax then
\* returns NaN or raises, and .loc[NaN] raises KeyError).
idxmax(group) ==
  LET valid == {i \in 1..Len(group) : group[i].Completion_Date # NaT}
      top == {i \in valid : \A j \in valid : group[j].Completion_Date <= group[i].Completion_Date}
  IN  IF valid = {} THEN 0 ELSE CHOOSE i \in top : \A j \in top : i <= j

\* A slip: the sum of the present scores divided by the number of all rows.
merge_multiple_reviews_all_rows(account_df) ==
  LET present == SelectSeq(account_df, LAMBDA r : r.Score # NoScore)
      scores == [i \in 1..Len(present) |-> present[i].Score]
      total == FracSum(scores)
  IN  [score |-> IF scores # <<>> THEN Frac(total.n, total.d * Len(account_df)) ELSE NoScore,
       date |-> MaxDate([i \in 1..Len(account_df) |-> account_df[i].Review_Date]),
       completion_date |-> MaxDate([i \in 1..Len(account_df) |-> account_df[i].Completion_Date])]

\* The score, date and completion date of a merged record.
merge_multiple_reviews(account_df) ==
  LET present == SelectSeq(account_df, LAMBDA r : r.Score # NoScore)
      scores == [i \in 1..Len(present) |-> present[i].Score]
  IN  [score |-> IF scores # <<>> THEN Mean(scores) ELSE NoScore,
       date |-> MaxDate([i \in 1..Len(account_df) |-> account_df[i].Review_Date]),
       completion_date |-> MaxDate([i \in 1..Len(account_df) |-> account_df[i].Completion_Date])]

\* A slip: a score of 0 and one response in the record of an account without data.
NoDataRecord_zero(vertical) ==
  [vertical |-> vertical, has_data |-> FALSE, score |-> Frac(0, 1), date |-> NaT,
   completion_date |-> NaT, response_count |-> 1, summary |-> "", raw_data |-> 0]

\* The records written to accounts_data.  raw_data names the row (by its index
\* label) that account_director, attendees, ifm and raw_data are read from, and
\* is 0 in a record without these fields.  summary tells where summary, feedback
\* and action_items come from: the merged sections, that row, or nowhere.
NoDataRecord(vertical) ==
  [vertical |-> vertical, has_data |-> FALSE, score |-> NoScore, date |-> NaT,
   completion_date |-> NaT, response_count |-> 0, summary |-> "", raw_data |-> 0]

\* In place of a record: id_df.loc[latest_idx] raising.
KeyError ==
  [vertical |-> "KeyError", has_data |-> FALSE, score |-> NoScore, date |-> NaT,
   completion_date |-> NaT, response_count |-> 0, summary |-> "", raw_data |-> 0]

MergedRecord(vertical, id_df) ==
  LET merged == merge_multiple_reviews(id_df)
  IN  [vertical |-> vertical, has_data |-> TRUE, score |-> merged.score,
       date |-> merged.date, completion_date |-> merged.completion_date,
       response_count |-> Len(id_df), summary |-> "Reviews Combined",
       raw_data |-> id_df[1].idx]

\* A slip: the score of the latest-row record averaged over the group.
LatestRecord_mean(vertical, id_df) ==
  IF idxmax(id_df) = 0 THEN KeyError
  ELSE LET latest == id_df[idxmax(id_df)]
       IN  [vertical |-> vertical, has_data |-> TRUE,
            score |-> merge_multiple_reviews(id_df).score,
            date |-> latest.Review_Date, completion_date |-> latest.Completion_Date,
            response_count |-> Len(id_df), summary |-> "latest", raw_data |-> latest.idx]

LatestRecord(vertical, id_df) ==
  IF idxmax(id_df) = 0 THEN KeyError
  ELSE LET latest == id_df[idxmax(id_df)]
       IN  [vertical |-> vertical, has_data |-> TRUE, score |-> latest.Score,
            date |-> latest.Review_Date, completion_date |-> latest.Completion_Date,
            response_count |-> Len(id_df), summary |-> "latest", raw_data |-> latest.idx]

\* for account_id in account_df['Account_Identifier'].unique(): the groups
GroupIds(account_df) ==
  unique([i \in 1..Len(account_df) |-> account_df[i].Account_Identifier])

GroupOf(account_df, account_id) ==
  SelectSeq(account_df, LAMBDA r : r.Account_Identifier = account_id)

IsMerged(account, id_df) == account \in merge_accounts /\ Len(id_df) > 1

\* The writes <<key, record>> of one pass of the loop over the roster.
AccountWrites(df, account, vertical) ==
  LET account_df == SelectSeq(df, LAMBDA r : r.Account_Normalized = account)
      ids == GroupIds(account_df)
  IN  IF Len(account_df) = 0 THEN << <<account, NoDataRecord(vertical)>> >>
      ELSE [j \in 1..Len(ids) |->
              LET id_df == GroupOf(account_df, ids[j])
              IN  <<ids[j], IF IsMerged(account, id_df) THEN MergedRecord(vertical, id_df)
                            ELSE LatestRecord(vertical, id_df)>>]

RECURSIVE RosterWrites(_, _)
RosterWrites(df, i) ==
  IF i > Len(account_to_vertical) THEN <<>>
  ELSE AccountWrites(df, account_to_vertical[i][1], account_to_vertical[i][2])
         \o RosterWrites(df, i + 1)

\* The writes of the loop over the accounts of vertical 'Other'.
OtherWrites(df) ==
  LET other_accounts_df == SelectSeq(df, LAMBDA r : r.Vertical = "Other")
      ids == GroupIds(other_accounts_df)
  IN  [j \in 1..Len(ids) |->
         <<ids[j], LatestRecord("Other", GroupOf(other_accounts_df, ids[j]))>>]

AllWrites(df) == RosterWrites(df, 1) \o OtherWrites(df)

\* Whether get_all_accounts_with_data raises.
get_all_accounts_raises(df) ==
  LET writes == AllWrites(df)
  IN  \E i \in 1..Len(writes) : writes[i][2] = KeyError

\* accounts_data as returned: each key holds the record written to it last.
get_all_accounts_with_data(df) ==
  LET writes == AllWrites(df)
      keys == {writes[i][1] : i \in 1..Len(writes)}
  IN  [k \in keys |->
         writes[Max({i \in 1..Len(writes) : writes[i][1] = k})][2]]

-----------------------------------------------------------------------------
(* main: one load cycle per request *)

\* raw_df = load_data(month=selected_month_key)
LoadData ==
  /\ pc = "start"
  /\ raw_df' = load_data(month)
  /\ st_error' = (csv_path(month) \in files /\ ~decodable)
  /\ pc' = "loaded"
  /\ UNCHANGED <<month, files, decodable, csv_rows, processed_df, all_accounts,
                 blank_state, prev_accounts, cycle>>
  /\ UNCHANGED callVars

\* if raw_df is None: processed_df = pd.DataFrame()
BlankState ==
  /\ pc = "loaded"
  /\ raw_df.none
  /\ processed_df' = <<>>
  /\ blank_state' = TRUE
  /\ pc' = "processed"
  /\ UNCHANGED <<month, files, decodable, csv_rows, raw_df, all_accounts, st_error,
                 prev_accounts, cycle>>
  /\ UNCHANGED callVars

\* else: processed_df = process_data(raw_df, month=selected_month_key)
ProcessData ==
  /\ pc = "loaded"
  /\ ~raw_df.none
  /\ \E outcome \in process_data_outcomes(raw_df, month) :
       IF outcome = "raise"
       THEN /\ pc' = "raised"
            /\ UNCHANGED <<processed_df, blank_state>>
       ELSE /\ processed_df' = process_data(raw_df, month)
            /\ blank_state' = FALSE
            /\ pc' = "processed"
  /\ raw_df' = process_data_input(raw_df, month)
  /\ UNCHANGED <<month, files, decodable, csv_rows, all_accounts, st_error,
                 prev_accounts, cycle>>
  /\ UNCHANGED callVars

\* all_accounts = get_all_accounts_with_data(processed_df)
GetAllAccounts ==
  /\ pc = "processed"
  /\ IF get_all_accounts_raises(processed_df)
     THEN pc' = "raised" /\ UNCHANGED all_accounts
     ELSE pc' = "done" /\ all_accounts' = get_all_accounts_with_data(processed_df)
  /\ UNCHANGED <<month, files, decodable, csv_rows, raw_df, processed_df, blank_state,
                 st_error, prev_accounts, cycle>>
  /\ UNCHANGED callVars

\* The next request after the cache's time-to-live: the script runs again on the
\* same files.
Rerun ==
  /\ pc = "done"
  /\ cycle = 1
  /\ cycle' = 2
  /\ prev_accounts' = all_accounts
  /\ pc' = "start"
  /\ UNCHANGED <<month, files, decodable, csv_rows, raw_df, processed_df, all_accounts,
                 blank_state, st_error>>
  /\ UNCHANGED callVars

-----------------------------------------------------------------------------
(* Inputs *)

MaxRows == 2

\* Every table of at most n rows drawn from rows.
Tables(rows, n) == UNION {[1..k -> rows] : k \in 0..n}

AllFiles ==
  {LegacyFile("10"), LegacyFile("8"), LegacyFile("5"), MonthFile(December), MonthFile(November)}

NoCall == /\ fn = "" /\ arg = None /\ ret = None /\ ret2 = None

\* The state main starts a request in.  A file that is missing or unreadable has
\* no rows to speak of.
InitMain(months, rows, n) ==
  /\ month \in months
  /\ files \in {{}, {LegacyFile("5")}, AllFiles}
  /\ decodable \in BOOLEAN
  /\ csv_rows \in Tables(rows, n)
  /\ (csv_path(month) \notin files \/ ~decodable) => csv_rows = <<>>
  /\ csv_path(month) \notin files => decodable
  /\ pc = "start"
  /\ raw_df = NoneFrame
  /\ processed_df = <<>>
  /\ all_accounts = <<>>
  /\ blank_state = FALSE
  /\ st_error = FALSE
  /\ prev_accounts = <<>>
  /\ cycle = 1
  /\ NoCall

\* Account labels of the catalogue's cases: an alias of a merge-list account, a
\* label on the exclusion list, a name outside the roster, and one whose
\* December key is a roster name.
CatalogLabels ==
  { <<"N","i","k","e","/","D","H","L">>,
    <<" ","O","m","n","i","c","o","m">>,
    <<"A","c","m","e">>,
    <<"D","e","t","r","o","i","t"," ","D","i","e","s","e","l">> }

CatalogRows ==
  { CsvRow(62, NA, label, <<"5">>, NA, 1, 1, completion, fm) :
      label \in CatalogLabels, completion \in {NaT, 1}, fm \in {NA, <<"D","D","C">>} }

Init == InitMain({December, November}, CatalogRows, MaxRows)

Next == LoadData \/ BlankState \/ ProcessData \/ GetAllAccounts

Spec == Init /\ [][Next]_vars

\* Two load cycles on the same files.
NextRerun == Next \/ Rerun

SpecRerun == Init /\ [][NextRerun]_vars

\* Reviews of a merge-list account and of another account, with scores that are
\* present and absent.
MaxMergeRows == 3

MergeRows ==
  { CsvRow(62, label, NA, score, NA, 1, NA, completion, NA) :
      label \in { <<"N","i","k","e","/","D","H","L">>, <<"M","e","r","c","k">> },
      score \in { <<"5",".","0">>, <<"4",".","0">>, <<"N","/","A">> },
      completion \in {1, 2} }

InitMerge == InitMain({November}, MergeRows, MaxMergeRows)

SpecMerge == InitMerge /\ [][Next]_vars

\* December rows of the roster account 'Detroit Diesel (DDC)' and of an account
\* outside the roster named 'Detroit Diesel', with and without the facility
\* manager 'DDC'.
SubIdentityRows ==
  { CsvRow(62, NA, label, NA, score, 1, 1, completion, fm) :
      label \in { <<"D","e","t","r","o","i","t"," ","D","i","e","s","e","l"," ","(","D","D","C",")">>,
                  <<"D","e","t","r","o","i","t"," ","D","i","e","s","e","l">> },
      score \in { <<"5">>, <<"4">> },
      completion \in {1, 2},
      fm \in {NA, <<"D","D","C">>} }

InitSubIdentity == InitMain({December}, SubIdentityRows, MaxRows)

SpecSubIdentity == InitSubIdentity /\ [][Next]_vars

\* Rows on both sides of the December cutoff, with a label that resolves to a
\* roster account, one outside the roster and a blank one; and rows of the cohort
\* with a facility manager that is given or is the form's placeholder.
CohortCsvRows ==
  { CsvRow(id, NA, label, NA, <<"5">>, 1, 1, 1, NA) :
      id \in {IdCutoff - 1, IdCutoff},
      label \in { <<"N","i","k","e","/","D","H","L">>, <<"A","c","m","e">>, <<" "," ">> } }
    \cup
  { CsvRow(IdCutoff, NA, <<"N","i","k","e","/","D","H","L">>, NA, <<"5">>, 1, 1, 1, fm) :
      fm \in { <<"D","D","C">>, <<"(","N","o","n","e",")">>, <<"D","D","C"," ","(","N","o","n","e",")">> } }

InitCohort == InitMain({December, November}, CohortCsvRows, MaxRows)

SpecCohort == InitCohort /\ [][Next]_vars

\* December rows of two accounts outside the roster, 'Acme' and 'Acme (X)', with
\* and without the facility manager 'X'.
OtherKeyRows ==
  { CsvRow(IdCutoff, NA, label, NA, <<"5">>, 1, 1, completion, fm) :
      label \in { <<"A","c","m","e">>, <<"A","c","m","e"," ","(","X",")">> },
      completion \in {1, 2},
      fm \in {NA, <<"X">>} }

InitOtherKeys == InitMain({December}, OtherKeyRows, MaxRows)

SpecOtherKeys == InitOtherKeys /\ [][Next]_vars

\* Rows under both column layouts: each of the two account columns and of the
\* two score columns missing, blank or populated.
SchemaRows ==
  { CsvRow(62, account, account1, score, score1, 1, 2, 1, NA) :
      account \in { NA, <<"N","i","k","e">>, <<"A","c","m","e">> },
      account1 \in { NA, <<" "," ">>, <<"M","e","r","c","k">> },
      score \in { NA, <<"5">> },
      score1 \in { NA, <<"4">> } }

-----------------------------------------------------------------------------
(* Direct calls of the pure functions *)

IdleMain ==
  /\ month = November /\ files = {} /\ decodable = TRUE /\ csv_rows = <<>>
  /\ pc = "idle" /\ raw_df = NoneFrame /\ processed_df = <<>> /\ all_accounts = <<>>
  /\ blank_state = FALSE /\ st_error = FALSE /\ prev_accounts = <<>> /\ cycle = 1

InitCall(args) ==
  /\ IdleMain
  /\ fn = "" /\ arg \in args /\ ret = None /\ ret2 = None

\* ret = f(arg)
Call(name, value) ==
  /\ fn = ""
  /\ fn' = name
  /\ ret' = value
  /\ UNCHANGED <<arg, ret2>>
  /\ UNCHANGED pipeVars

\* ret2 = f(ret)
CallAgain(name, again, value) ==
  /\ fn = name
  /\ fn' = again
  /\ ret2' = value
  /\ UNCHANGED <<arg, ret>>
  /\ UNCHANGED pipeVars

RECURSIVE Texts(_, _)
\* Every text of at most n characters of alphabet.
Texts(alphabet, n) ==
  IF n = 0 THEN {<<>>}
  ELSE LET shorter == Texts(alphabet, n - 1)
       IN  shorter \cup {Append(t, c) : t \in shorter, c \in alphabet}

(* clean_text *)

MaxTextLen == 2

\* The characters the table rewrites, the characters it writes, and a letter.
CleanAlphabet ==
  {replacements[i][1] : i \in 1..Len(replacements)}
    \cup {replacements[i][2] : i \in 1..Len(replacements)} \cup {"a"}

InitClean == InitCall(Texts(CleanAlphabet, MaxTextLen) \cup {NA})

CallCleanText == Call("clean_text", clean_text(arg))
CallCleanTextAgain == CallAgain("clean_text", "clean_text twice", clean_text(ret))

NextClean == CallCleanText \/ CallCleanTextAgain

SpecClean == InitClean /\ [][NextClean]_vars

(* parse_score *)

MaxChunks == 3

\* Pieces of score texts: numbers in and out of range, separators, and the
\* phrasings of the patterns.
ScoreChunks ==
  { <<"5">>, <<"4",".","0">>, <<"7">>, <<".">>, <<"/">>, <<" ">>, <<"-">>, <<"U+2013">>,
    <<"s","c","o","r","e","d"," ","a"," ">>,
    <<"S","B","M"," ">>,
    <<" ","o","u","t"," ","o","f"," ">>,
    <<"a","l","l"," ","s","i","t","e","s"," ">> }

RECURSIVE ChunkTexts(_)
\* Every text made of at most n chunks.
ChunkTexts(n) ==
  IF n = 0 THEN {<<>>}
  ELSE LET shorter == ChunkTexts(n - 1)
       IN  shorter \cup {t \o c : t \in shorter, c \in ScoreChunks}

Text468 == <<"4",".","6","8">>
Text493of5 == <<"4",".","9","3","/","5",".","0","0">>
TextEverySite ==
  <<"E","v","e","r","y"," ","s","i","t","e"," ","s","c","o","r","e","d"," ","a"," ","5",
    " ","t","h","i","s"," ","m","o","n","t","h">>
TextBloomfield ==
  <<"B","l","o","o","m","f","i","e","l","d"," ","U+2013"," ","4",".","0"," ",
    "S","t","."," ","L","o","u","i","s"," ","U+2013"," ","5",".","0">>

TextSBM == <<"S","B","M"," ","4",".","2","5",","," ","5">>

\* 'N/A' in every letter case
RECURSIVE CaseVariants(_)
CaseVariants(s) ==
  IF s = <<>> THEN {<<>>}
  ELSE {<<c>> \o t : c \in {LowerChar(s[1]), UpperChar(s[1])}, t \in CaseVariants(Tail(s))}

ScoreInputs ==
  ChunkTexts(MaxChunks) \cup CaseVariants(<<"N","/","A">>)
    \cup {Text468, Text493of5, TextEverySite, TextBloomfield, TextSBM, NA}

InitScore == InitCall(ScoreInputs)

CallParseScore == Call("parse_score", parse_score(arg))

NextScore == CallParseScore

SpecScore == InitScore /\ [][NextScore]_vars

(* process_data.get_account_name *)

\* A row and the month process_data is called with.
InitSchema == InitCall([row : SchemaRows, month : {December, November}])

CallGetAccountName ==
  Call("get_account_name", get_account_name(arg.row, arg.month = December))

\* df['Score_Raw'] = df.apply(lambda row: get_column_value(row, original_score_col,
\* new_score_col), axis=1), for one row
CallGetColumnValue ==
  Call("get_column_value",
       get_column_value(arg.row, arg.row.Score, arg.row.Score1, arg.month = December))

NextSchema == CallGetAccountName \/ CallGetColumnValue

SpecSchema == InitSchema /\ [][NextSchema]_vars

(* normalize_account_name *)

MaxCaseLen == 5

KnownLabels == RosterKeys \cup VariantKeys

\* Every known label as written, in lower and in upper case and padded; the short
\* ones in every letter case; a name outside the tables; blank and missing labels.
LabelInputs ==
  KnownLabels
    \cup {lower(s) : s \in KnownLabels}
    \cup {upper(s) : s \in KnownLabels}
    \cup {<<" ">> \o s \o <<" ">> : s \in KnownLabels}
    \cup UNION {CaseVariants(s) : s \in {k \in KnownLabels : Len(k) <= MaxCaseLen}}
    \cup {<<"A","c","m","e">>, <<" "," ">>, <<>>, NA}

InitResolve == InitCall(LabelInputs)

CallNormalize == Call("normalize_account_name", normalize_account_name(arg))
CallNormalizeAgain ==
  CallAgain("normalize_account_name", "normalize_account_name twice",
            normalize_account_name(ret))

NextResolve == CallNormalize \/ CallNormalizeAgain

SpecResolve == InitResolve /\ [][NextResolve]_vars


(* load_data's choice of file *)

FileChoices == AllFiles \cup {MonthFile(October)}

\* A month and the files of the Scorecards directory; every file is readable.
InitFiles ==
  /\ month \in {December, November, October}
  /\ files \in SUBSET FileChoices
  /\ decodable = TRUE /\ csv_rows = <<>>
  /\ pc = "idle" /\ raw_df = NoneFrame /\ processed_df = <<>> /\ all_accounts = <<>>
  /\ blank_state = FALSE /\ st_error = FALSE /\ prev_accounts = <<>> /\ cycle = 1
  /\ NoCall

\* load_data(month): the path it settles on and the frame it returns
CallLoadData ==
  Call("load_data", [csv_path |-> csv_path(month), df |-> load_data(month)])

NextFiles == CallLoadData

SpecFiles == InitFiles /\ [][NextFiles]_vars

(* get_available_months and load_data without a month *)

MonthChoices == FileChoices \cup {MonthFile(January)}

\* The files of the Scorecards directory; every file is readable.
InitMonths ==
  /\ month = November
  /\ files \in SUBSET MonthChoices
  /\ decodable = TRUE /\ csv_rows = <<>>
  /\ pc = "idle" /\ raw_df = NoneFrame /\ processed_df = <<>> /\ all_accounts = <<>>
  /\ blank_state = FALSE /\ st_error = FALSE /\ prev_accounts = <<>> /\ cycle = 1
  /\ NoCall

CallGetAvailableMonths == Call("get_available_months", get_available_months)

\* load_data(): the path it settles on
CallLoadDataDefault ==
  CallAgain("get_available_months", "load_data", default_csv_path)

NextMonths == CallGetAvailableMonths \/ CallLoadDataDefault

SpecMonths == InitMonths /\ [][NextMonths]_vars
-----------------------------------------------------------------------------
(* Properties *)

\* Whether key k of the output mapping stands for account: the name itself, or
\* the name with a sub-identity suffix, "<account> (<ifm>)".
IsKeyOf(k, account) ==
  \/ k = account
  \/ /\ Len(k) > Len(account) + 3
     /\ SubSeq(k, 1, Len(account) + 2) = account \o <<" ", "(">>
     /\ k[Len(k)] = ")"

Done == pc = "done"

\* C1: the catalogue is total over the roster: after process_data and
\* get_all_accounts_with_data every roster account has a key of the output
\* mapping that stands for it, and the records under its keys have
\* has_data = false exactly when no input row resolved to the account.
C1_CatalogTotal ==
  Done =>
    \A account \in RosterKeys :
      LET keys == {k \in DOMAIN all_accounts : IsKeyOf(k, account)}
          resolved == \E i \in 1..Len(processed_df) :
                        processed_df[i].Account_Normalized = account
      IN  /\ keys # {}
          /\ \A k \in keys : (all_accounts[k].has_data = FALSE) <=> ~resolved

\* C2: parse_score returns absent or a number in [0.0, 5.0], for every input.
C2_ScoreBounds ==
  fn = "parse_score" => (ret = NoScore \/ InScoreRange(ret))

\* The labels that the variant table maps to the exclusion sentinel.
ExclusionList == {k \in VariantKeys : VariantOf[k] = None}

IsExcluded(label) == notna(label) /\ strip(label) \in ExclusionList

\* The account label of the frame's row with index label i.
ChosenLabel(i) == get_account_name(raw_df.rows[i].csv, month = December)

\* C3: a row whose account label is on the exclusion list is dropped before
\* aggregation: no resolved row carries such a label, no key of the output mapping
\* is such a label (alone or with a suffix), and no record is read from such a row,
\* in any month.
C3_ExcludedNeverAppears ==
  /\ pc \in {"processed", "done"} =>
       \A i \in 1..Len(processed_df) :
         /\ ~IsExcluded(processed_df[i].Account_Name)
         /\ processed_df[i].Account_Normalized \notin ExclusionList \cup {None}
  /\ Done =>
       \A k \in DOMAIN all_accounts :
         /\ \A e \in ExclusionList : ~IsKeyOf(k, e)
         /\ all_accounts[k].raw_data # 0 => ~IsExcluded(ChosenLabel(all_accounts[k].raw_data))

\* C3's case: a load with an excluded row and a row that does yield a record.
C3_Witness ==
  /\ Done
  /\ \E i \in 1..Len(raw_df.rows) : IsExcluded(ChosenLabel(i))
  /\ \E k \in DOMAIN all_accounts : all_accounts[k].has_data

RECURSIVE SumHundredths(_)
\* The sum of the rows' scores, in hundredths.
SumHundredths(rows) ==
  IF rows = <<>> THEN 0
  ELSE (Head(rows).Score.n * 100) \div Head(rows).Score.d + SumHundredths(Tail(rows))

\* The rows grouped with row i: same canonical account, same identifier.
GroupWith(i) ==
  SelectSeq(processed_df, LAMBDA r :
    /\ r.Account_Normalized = processed_df[i].Account_Normalized
    /\ r.Account_Identifier = processed_df[i].Account_Identifier)

WithScore(rows) == SelectSeq(rows, LAMBDA r : r.Score # NoScore)

NeedsFallback(row) == ~Populated(row.Account1) /\ Populated(row.Account)

\* C5, as stated: the unified account name of a row whose continuation-column
\* account is missing or blank after trimming and whose primary-column account is
\* populated is the primary-column value.
C5_SchemaFallback ==
  (fn = "get_account_name" /\ NeedsFallback(arg.row)) => ret = arg.row.Account

\* C5, amended: the same, for every month but December 2025, whose rows take the
\* continuation column unconditionally.
C5_SchemaFallbackOutsideDecember ==
  (fn = "get_account_name" /\ NeedsFallback(arg.row) /\ arg.month # December) =>
    ret = arg.row.Account

\* C5's case: a November row with a blank continuation column, named by its
\* primary column.
C5_Witness ==
  /\ fn = "get_account_name"
  /\ arg.month = November
  /\ arg.row.Account1 = <<" ", " ">>
  /\ arg.row.Account = <<"N","i","k","e">>
  /\ ret = <<"N","i","k","e">>

C7_CleanTextIdempotent ==
  fn = "clean_text twice" => ret2 = ret

\* C7's case: a text that the first application rewrote, cleaned twice.
C7_Witness ==
  /\ fn = "clean_text twice"
  /\ ret # arg

Cigna == <<"C","I","G","N","A">>

\* C8: a label that differs from a roster entry only in letter case resolves to
\* that entry in the roster's casing; 'cigna', 'CIGNA' and 'Cigna' give 'CIGNA'.
C8_CaseInsensitive ==
  (fn = "normalize_account_name" /\ notna(arg)) =>
    /\ \A i \in 1..Len(account_to_vertical) :
         lower(arg) = lower(account_to_vertical[i][1]) => ret = account_to_vertical[i][1]
    /\ arg \in {<<"c","i","g","n","a">>, <<"C","i","g","n","a">>, Cigna} => ret = Cigna

\* C8's case: a casing of 'CIGNA' that is neither the roster's nor a key of the
\* variant table.
C8_Witness ==
  /\ fn = "normalize_account_name"
  /\ arg = <<"c","I","g","N","a">>
  /\ ret = Cigna

\* C9: the documented results of parse_score: '4.68' gives 4.68, '4.93/5.00' gives
\* 4.93, 'N/A' in any letter case gives absent, 'Every site scored a 5 this month'
\* gives 5.0 and 'Bloomfield - 4.0 St. Louis - 5.0' (with en dashes) gives 4.5.
C9_ScoreExamples ==
  fn = "parse_score" =>
    /\ arg = Text468 => ret = [n |-> 117, d |-> 25]
    /\ arg = Text493of5 => ret = [n |-> 493, d |-> 100]
    /\ (notna(arg) /\ upper(arg) = <<"N","/","A">>) => ret = NoScore
    /\ arg = TextEverySite => ret = [n |-> 5, d |-> 1]
    /\ arg = TextBloomfield => ret = [n |-> 9, d |-> 2]

\* C9's case: the multi-site text parsed.
C9_Witness ==
  /\ fn = "parse_score"
  /\ arg = TextBloomfield
  /\ ret = [n |-> 9, d |-> 2]

\* C10: when no candidate file exists for the month, the load raises nothing and
\* the cycle goes on with zero rows: the output mapping has exactly the roster
\* accounts as keys, each with has_data = false, score, date and completion date
\* absent and response_count 0.
C10_InputAbsence ==
  csv_path(month) \notin files =>
    /\ pc # "raised"
    /\ ~st_error
    /\ pc \in {"loaded", "processed", "done"} => raw_df.none
    /\ pc \in {"processed", "done"} => (processed_df = <<>> /\ blank_state)
    /\ Done =>
         /\ DOMAIN all_accounts = RosterKeys
         /\ \A k \in RosterKeys :
              /\ all_accounts[k].vertical = VerticalOf[k]
              /\ all_accounts[k].has_data = FALSE
              /\ all_accounts[k].score = NoScore
              /\ all_accounts[k].date = NaT
              /\ all_accounts[k].completion_date = NaT
              /\ all_accounts[k].response_count = 0

\* C10's case: a cycle completed with the month's file missing.
C10_Witness ==
  /\ Done
  /\ csv_path(month) \notin files
  /\ pc # "start"


\* C11, as stated: when the month's file exists and cannot be read under any
\* encoding, the caller is told so in a way that differs from a missing file (a
\* return value other than None, or an error message), and
\* get_all_accounts_with_data is not run for that load.
C11_EncodingFailureTerminal ==
  (csv_path(month) \in files /\ ~decodable /\ pc \in {"loaded", "processed", "done", "raised"}) =>
    /\ (raw_df # NoneFrame \/ st_error)
    /\ pc # "done"

\* C12, as stated: rows with an unparseable score, review date or completion
\* timestamp do not make the aggregation raise, and every resolved row is counted
\* in the record of its group (has_data true, response_count the size of the
\* group), also when every completion timestamp of a group is unparseable.
C12_UnparseableRecovery ==
  /\ pc = "processed" => ~get_all_accounts_raises(processed_df)
  /\ Done =>
       \A i \in 1..Len(processed_df) :
         LET record == all_accounts[processed_df[i].Account_Identifier]
         IN  record.has_data /\ record.response_count = Len(GroupWith(i))

\* Whether a label matches no key of the variant table and no roster entry,
\* exactly or ignoring case.
Unmapped(label) ==
  /\ notna(label)
  /\ strip(label) \notin VariantKeys
  /\ strip(label) \notin RosterKeys
  /\ \A k \in RosterKeys : lower(k) # lower(strip(label))

\* C13, as stated: a cohort row with an unmapped label is never dropped: the load
\* completes and the output mapping has, under the trimmed label (with the
\* sub-identity suffix where the split applies), a record with vertical 'Other'
\* and has_data = true, and that key is not a roster name.
C13_UnmappedKept ==
  pc \in {"done", "raised"} =>
    \A i \in 1..Len(raw_df.rows) :
      LET row == raw_df.rows[i].csv
          label == ChosenLabel(i)
          key == create_account_identifier(strip(label), IFMOf(row.FM), month = December)
      IN  ((month = December => row.Id >= IdCutoff) /\ Unmapped(label)) =>
            /\ Done
            /\ key \in DOMAIN all_accounts
            /\ all_accounts[key].vertical = "Other"
            /\ all_accounts[key].has_data
            /\ key \notin RosterKeys

\* The first file of a list of candidates that exists; the last candidate when
\* none does.
FirstExisting(candidates) ==
  LET existing == {i \in 1..Len(candidates) : candidates[i] \in files}
  IN  IF existing = {} THEN candidates[Len(candidates)]
      ELSE candidates[CHOOSE i \in existing : \A j \in existing : i <= j]

\* The legacy file names of a month, in their order of priority.
LegacyCandidates(m) ==
  IF m = December THEN <<LegacyFile("10")>>
  ELSE IF m = November THEN <<LegacyFile("8"), LegacyFile("5")>>
  ELSE <<>>

\* C14, as stated: the loader tries '<Month>_<Year>_Scorecards.csv' first and
\* then the legacy names in their order; the first candidate that exists is the
\* file loaded, whatever files exist.
C14_CurrentFormatFirst ==
  fn = "load_data" =>
    LET candidates == <<MonthFile(month)>> \o LegacyCandidates(month)
    IN  IF \E i \in 1..Len(candidates) : candidates[i] \in files
        THEN ~ret.df.none /\ ret.csv_path = FirstExisting(candidates)
        ELSE ret.df.none

\* C14, amended: the loader tries the legacy names first, in their order ((10) for
\* December 2025; (8), then (5) for November 2025; none for another month), and
\* '<Month>_<Year>_Scorecards.csv' last; the first candidate that exists is the
\* file loaded, and nothing is loaded when none exists.
C14_LegacyFirst ==
  fn = "load_data" =>
    LET candidates == LegacyCandidates(month) \o <<MonthFile(month)>>
    IN  IF \E i \in 1..Len(candidates) : candidates[i] \in files
        THEN ~ret.df.none /\ ret.csv_path = FirstExisting(candidates)
        ELSE ret.df.none

\* C14's case: November with the (5) file and the month's own file present and the
\* (8) file missing: the (5) file is loaded.
C14_Witness ==
  /\ fn = "load_data"
  /\ month = November
  /\ LegacyFile("8") \notin files
  /\ LegacyFile("5") \in files
  /\ MonthFile(November) \in files
  /\ ret.csv_path = LegacyFile("5")
  /\ ~ret.df.none

\* C15, as stated: outside December the unified score is the continuation score
\* column if it is populated and else the primary score column, whichever column
\* gave the account name.
C15_PerFieldIndependence ==
  (fn = "get_column_value" /\ arg.month # December) =>
    ret = IF Populated(arg.row.Score1) THEN arg.row.Score1 ELSE arg.row.Score

\* C16: normalize_account_name returns, for every input, the result of the first
\* rule that applies: excluded for a missing input; for a trimmed label that is a
\* key of the variant table the table's value (excluded for the sentinel); the
\* label for a trimmed label that is a roster entry; the roster's casing for one
\* that equals a roster entry ignoring case (the first such entry); and otherwise
\* the trimmed label.
C16_ResolverRules ==
  fn = "normalize_account_name" =>
    IF isna(arg) THEN ret = None
    ELSE LET label == strip(arg)
             matches == {i \in 1..Len(account_to_vertical) :
                           lower(account_to_vertical[i][1]) = lower(label)}
         IN  IF label \in VariantKeys THEN ret = VariantOf[label]
             ELSE IF label \in RosterKeys THEN ret = label
             ELSE IF matches # {}
             THEN ret = account_to_vertical[CHOOSE i \in matches : \A j \in matches : i <= j][1]
             ELSE ret = label

\* C16's case: a padded alias, resolved through the variant table after trimming.
C16_Witness ==
  /\ fn = "normalize_account_name"
  /\ arg = <<" ","N","i","k","e","/","D","H","L"," ">>
  /\ ret = <<"N","i","k","e">>

\* The groups of the resolved rows: canonical account and identifier.
Groups ==
  {<<processed_df[i].Account_Normalized, processed_df[i].Account_Identifier>> :
     i \in 1..Len(processed_df)}

\* Whether the record under key k is the record of group g: keyed by the group's
\* identifier, in the account's vertical, and read from a row of the group.
RecordOfGroup(k, g) ==
  /\ k = g[2]
  /\ all_accounts[k].has_data
  /\ all_accounts[k].vertical = VerticalFor(g[1])
  /\ \E i \in 1..Len(processed_df) :
       /\ processed_df[i].Account_Normalized = g[1]
       /\ processed_df[i].Account_Identifier = g[2]
       /\ processed_df[i].idx = all_accounts[k].raw_data

\* C17, as stated: after aggregation every group of resolved rows has exactly one
\* record in the output mapping, and every record with data is the record of
\* exactly one group.
C17_OneRecordPerGroup ==
  Done =>
    /\ \A g \in Groups :
         Cardinality({k \in DOMAIN all_accounts : RecordOfGroup(k, g)}) = 1
    /\ \A k \in DOMAIN all_accounts :
         all_accounts[k].has_data => Cardinality({g \in Groups : RecordOfGroup(k, g)}) = 1

ReachesPatterns(text) ==
  /\ notna(text)
  /\ upper(strip(text)) # <<"N","/","A">>
  /\ float(strip(text)) = ValueError
  /\ ("/" \in {strip(text)[i] : i \in 1..Len(strip(text))}
        => float(BeforeSlash(strip(text))) = ValueError)

\* The listed phrasings as patterns on the lowered text: 'SBM <n>' first.
ListedPatterns ==
  [score_patterns EXCEPT ![1] = Lit(<<"s","b","m">>) \o <<Plus(Whitespace)>> \o Number]

\* C19, as stated: when parse_score gets as far as the patterns, the result is the
\* number captured by the first of the listed phrasings ('SBM <n>', 'scored a <n>',
\* '<n> out of', 'score of <n>', '<n>/5', 'all sites scored a <n>') that matches
\* with a capture in [0, 5]; 'SBM 4.25, 5' gives 4.25.
C19_PatternStep ==
  (fn = "parse_score" /\ ReachesPatterns(arg)) =>
    LET s == lower(strip(arg))
        hits == {i \in 1..Len(ListedPatterns) :
                   LET m == search(ListedPatterns[i], s)
                   IN  m.ok /\ InScoreRange(float(Group1(s, m)))}
    IN  /\ hits # {} =>
             ret = float(Group1(s, search(ListedPatterns[CHOOSE i \in hits : \A j \in hits : i <= j], s)))
        /\ arg = TextSBM => ret = [n |-> 17, d |-> 4]

\* The length of the run of digits that text starts with.
RECURSIVE DigitRun(_)
DigitRun(text) ==
  IF text # <<>> /\ Head(text) \in Digits THEN 1 + DigitRun(Tail(text)) ELSE 0

\* The numeric substrings of a text, left to right: a run of digits, a point after
\* it if there is one, and the digits after the point.
RECURSIVE NumericSubstrings(_)
NumericSubstrings(text) ==
  IF text = <<>> THEN <<>>
  ELSE IF Head(text) \notin Digits THEN NumericSubstrings(Tail(text))
  ELSE LET whole == DigitRun(text)
           point == IF whole < Len(text) /\ text[whole + 1] = "." THEN 1 ELSE 0
           length == whole + point
                       + (IF point = 1 THEN DigitRun(SubSeq(text, whole + 2, Len(text))) ELSE 0)
       IN  <<SubSeq(text, 1, length)>> \o NumericSubstrings(SubSeq(text, length + 1, Len(text)))

\* C20: when parse_score gets past the patterns without a result, the result is the
\* arithmetic mean of the numeric substrings of the text whose value lies in
\* [0, 5]: numbers out of range count neither in the sum nor in the count, and the
\* result is absent when the text has no numeric substring or none in range.
C20_FallbackMean ==
  (fn = "parse_score" /\ ReachesPatterns(arg) /\ PatternScore(strip(arg)) = NoScore) =>
    LET numbers == NumericSubstrings(strip(arg))
        values == [i \in 1..Len(numbers) |-> float(numbers[i])]
        valid == SelectSeq(values, LAMBDA v : FracLeq(Frac(0, 1), v) /\ FracLeq(v, Frac(5, 1)))
        total == FracSum(valid)
    IN  IF valid = <<>> THEN ret = NoScore
        ELSE /\ ret.d > 0
             /\ ret.n * total.d * Len(valid) = total.n * ret.d

\* C20's case: '7 5', whose 7 is out of range: the mean of 5 alone.
C20_Witness ==
  /\ fn = "parse_score"
  /\ arg = <<"7", " ", "5">>
  /\ ret = [n |-> 5, d |-> 1]

\* Whether row i of the loaded table belongs to the month's cohort.
InCohort(i) == month = December => raw_df.rows[i].csv.Id >= IdCutoff

\* The index labels of the rows of a table.
Labels(rows) == {rows[i].idx : i \in 1..Len(rows)}

\* C21: in December 2025 only the rows with Id >= 62 contribute: no resolved row
\* and no record comes from a row below the cutoff, and the output mapping is the
\* one that the table without those rows gives; in every other month no row is
\* removed by its identifier: the resolved rows are all the rows that the resolver
\* does not exclude.
C21_CohortCutoff ==
  /\ pc \in {"processed", "done"} =>
       /\ \A i \in 1..Len(processed_df) : InCohort(processed_df[i].idx)
       /\ month # December =>
            Labels(processed_df) =
              {i \in 1..Len(raw_df.rows) : normalize_account_name(ChosenLabel(i)) # None}
  /\ Done =>
       /\ \A k \in DOMAIN all_accounts :
            all_accounts[k].has_data =>
              /\ all_accounts[k].raw_data \in 1..Len(raw_df.rows)
              /\ InCohort(all_accounts[k].raw_data)
              /\ all_accounts[k].response_count
                   <= Cardinality({i \in 1..Len(raw_df.rows) : InCohort(i)})
       /\ all_accounts =
            get_all_accounts_with_data(
              process_data(Frame(SelectSeq(raw_df.rows, LAMBDA r : InCohort(r.idx))), month))

\* C21's case: a December load with a row of 'Acme' below the cutoff and a row of
\* Nike at the cutoff: no record for 'Acme', one response for Nike.
C21_Witness ==
  /\ Done
  /\ month = December
  /\ Len(raw_df.rows) = 2
  /\ raw_df.rows[1].csv.Id < IdCutoff
  /\ raw_df.rows[1].csv.Account1 = <<"A","c","m","e">>
  /\ raw_df.rows[2].csv.Id >= IdCutoff
  /\ <<"A","c","m","e">> \notin DOMAIN all_accounts
  /\ all_accounts[<<"N","i","k","e">>].has_data
  /\ all_accounts[<<"N","i","k","e">>].response_count = 1
  /\ all_accounts[<<"N","i","k","e">>].raw_data = 2

\* The place of a month in time: months since year 0.
Chronological(m) ==
  CASE m = October -> 2025 * 12 + 10
    [] m = November -> 2025 * 12 + 11
    [] m = December -> 2025 * 12 + 12
    [] m = January -> 2026 * 12 + 1

\* C22, as stated: get_available_months returns the available months most recent
\* first, by year and month, and load_data called without a month settles on the
\* file of the latest available month.
C22_MostRecentFirst ==
  fn \in {"get_available_months", "load_data"} =>
    /\ \A i, j \in 1..Len(ret) : i < j => Chronological(ret[i]) > Chronological(ret[j])
    /\ (fn = "load_data" /\ ret # <<>>) =>
         \E m \in {ret[i] : i \in 1..Len(ret)} :
           /\ \A i \in 1..Len(ret) : Chronological(ret[i]) <= Chronological(m)
           /\ ret2 = csv_path(m)

\* The IFM text of a key: the cell stripped, '(None)' removed, stripped again; empty
\* for a missing cell.
SubIdentity(fm) ==
  IF isna(fm) THEN <<>> ELSE strip(RemoveAll(strip(fm), <<"(","N","o","n","e",")">>))

CompositeKey(account, fm) == account \o <<" ", "(">> \o SubIdentity(fm) \o <<")">>

\* The 'Who is Your FM' cell of the row that a resolved row was made from.
FMOf(r) == raw_df.rows[r.idx].csv.FM

\* C23, as stated: in every month a resolved row whose IFM is populated (non-blank
\* after removing '(None)') has the key '<canonical account> (<IFM>)', rows of one
\* account with different IFM values have separate records, and a row with an
\* empty IFM has the canonical name as key.
C23_SubIdentitySplit ==
  /\ pc \in {"processed", "done"} =>
       \A i \in 1..Len(processed_df) :
         LET r == processed_df[i]
         IN  r.Account_Identifier =
               IF SubIdentity(FMOf(r)) # <<>> THEN CompositeKey(r.Account_Normalized, FMOf(r))
               ELSE r.Account_Normalized
  /\ Done =>
       \A i, j \in 1..Len(processed_df) :
         LET r == processed_df[i]
             s == processed_df[j]
         IN  /\ r.Account_Identifier \in DOMAIN all_accounts
             /\ all_accounts[r.Account_Identifier].has_data
             /\ (/\ r.Account_Normalized = s.Account_Normalized
                 /\ SubIdentity(FMOf(r)) # SubIdentity(FMOf(s))) =>
                   r.Account_Identifier # s.Account_Identifier

RECURSIVE SumResponseCount(_)
\* The sum of response_count over the records under a set of keys.
SumResponseCount(keys) ==
  IF keys = {} THEN 0
  ELSE LET k == CHOOSE k \in keys : TRUE
       IN  all_accounts[k].response_count + SumResponseCount(keys \ {k})

\* C24, as stated: every resolved row is counted in exactly one record: the sum of
\* response_count over the output mapping is the number of resolved rows, and no
\* group's record is overwritten by the record of another group with the same key.
C24_RowConservation ==
  Done => SumResponseCount(DOMAIN all_accounts) = Len(processed_df)

\* C25, as stated: every key of the output mapping is a non-empty account name, and
\* a row whose chosen label is blank is treated like one with a missing label: it
\* is no resolved row and no record is read from it.
C25_NoBlankKey ==
  /\ pc \in {"processed", "done"} =>
       \A i \in 1..Len(processed_df) : strip(processed_df[i].Account_Name) # <<>>
  /\ Done =>
       \A k \in DOMAIN all_accounts :
         /\ k # <<>>
         /\ k[1] \notin Whitespace
         /\ all_accounts[k].raw_data # 0 =>
              strip(ChosenLabel(all_accounts[k].raw_data)) # <<>>

\* The rows of the group of the resolved row with index label idx.
GroupOfLabel(idx) ==
  LET i == CHOOSE i \in 1..Len(processed_df) : processed_df[i].idx = idx
  IN  GroupWith(i)

\* C26, as stated: a record has has_data = false exactly when its response_count is
\* 0, and then no score, date or completion date; a record with has_data = true has
\* as response_count the number of rows of its group, at least 1.
C26_PresenceConsistency ==
  Done =>
    \A k \in DOMAIN all_accounts :
      LET record == all_accounts[k]
      IN  /\ (record.has_data = FALSE) <=> (record.response_count = 0)
          /\ ~record.has_data =>
               /\ record.score = NoScore
               /\ record.date = NaT
               /\ record.completion_date = NaT
          /\ record.has_data =>
               /\ record.response_count >= 1
               /\ record.response_count = Len(GroupOfLabel(record.raw_data))

\* The canonical account that the record under key k stands for: that of the row
\* it was read from, and the key itself for a record without data.
BaseAccount(k) ==
  IF all_accounts[k].raw_data = 0 THEN k
  ELSE LET i == CHOOSE i \in 1..Len(processed_df) :
                  processed_df[i].idx = all_accounts[k].raw_data
       IN  processed_df[i].Account_Normalized

\* C27, as stated: every record's vertical is the roster's vertical of its base
\* account, and 'Other' exactly when the base account is outside the roster; no
\* roster account is under 'Other', and the records of one account agree on the
\* vertical.
C27_VerticalAssignment ==
  Done =>
    /\ \A k \in DOMAIN all_accounts :
         /\ BaseAccount(k) \in RosterKeys =>
              all_accounts[k].vertical = Get(account_to_vertical, BaseAccount(k))
         /\ (all_accounts[k].vertical = "Other") <=> (BaseAccount(k) \notin RosterKeys)
         /\ k \in RosterKeys => all_accounts[k].vertical # "Other"
    /\ \A k, l \in DOMAIN all_accounts :
         BaseAccount(k) = BaseAccount(l) => all_accounts[k].vertical = all_accounts[l].vertical

\* C28: resolving a resolved name again gives the same name:
\* normalize_account_name(normalize_account_name(x)) = normalize_account_name(x)
\* for every label x that is not excluded.
C28_ResolverIdempotent ==
  (fn = "normalize_account_name twice" /\ ret # None) => ret2 = ret

\* C28's case: an alias in lower case, resolved twice.
C28_Witness ==
  /\ fn = "normalize_account_name twice"
  /\ arg = <<"b","o","e","i","n","g">>
  /\ ret = <<"B","o","e","i","n","g"," ","C","o","m","p","a","n","y">>
  /\ ret2 = ret

\* C29, as stated: process_data leaves the caller's table as load_data returned it,
\* with the same columns and rows, in every month.
C29_InputUnchanged ==
  pc \in {"processed", "done", "raised"} => raw_df = load_data(month)

\* C30: every entry of the variant table that is not mapped to the exclusion
\* sentinel is mapped to a roster entry, so a label that the resolver finds in the
\* variant table resolves to a roster account, with a vertical other than 'Other'.
C30_VariantClosure ==
  /\ \A i \in 1..Len(account_name_variations) :
       \/ account_name_variations[i][2] = None
       \/ \E j \in 1..Len(account_to_vertical) :
            account_to_vertical[j][1] = account_name_variations[i][2]
  /\ (/\ fn = "normalize_account_name"
      /\ notna(arg)
      /\ \E i \in 1..Len(account_name_variations) : account_name_variations[i][1] = strip(arg)
      /\ ret # None) =>
       /\ ret \in RosterKeys
       /\ VerticalFor(ret) # "Other"

\* C30's case: an alias that differs from its canonical name, resolved.
C30_Witness ==
  /\ fn = "normalize_account_name"
  /\ arg = <<"M","i","c","r","o","n"," ","(","C","&","W",")">>
  /\ ret = <<"M","i","c","r","o","n"," ","T","e","c","h">>
=============================================================================
